---- MODULE Spec2Model ----
(***************************************************************************)
(* Model of the sprockets command line interface (sprockets/cli.py):       *)
(* controller discovery, the argparse grammar, alias resolution, the       *)
(* logging configurator and the dispatch of CLI.run.                       *)
(*                                                                         *)
(* Python values that may be None are modelled as sets: {} is None and     *)
(* {x} is the value x.  The dict and list objects that are shared by      *)
(* reference live in the variables dicts and lists, so that the aliasing   *)
(* left by dict(...) (a shallow copy) is part of the model.                *)
(***************************************************************************)
EXTENDS Integers, Sequences, FiniteSets, TLC

\* ------------------------------------------------------------- bounds
\* most entries the plugin index holds
MaxEntries == 2
\* most repetitions of -v on the command line, and largest verbosity passed
MaxVerbose == 3
\* most calls of the logging configurator in one process (SpecCfg)
MaxCalls == 2

\* ------------------------------------------------- program constants
\* logging.WARNING, logging.INFO, logging.DEBUG
WARNING == 30
INFO == 20
DEBUG == 10

None == {}
Some(x) == {x}

\* CLI.CONTROLLERS = 'sprockets.controller'; a group name is modelled as
\* the tuple of its dot separated parts
CONTROLLERS == <<"sprockets", "controller">>

\* ------------------------------------------------------- environment
\* names under which controllers register
ControllerNames == {"web", "worker"}
\* module identifiers of controller plugins; one of them fails to import
ControllerModules == {"sprockets_web", "sprockets_broken"}
Importable == {"sprockets_web"}
\* names and module identifiers of registered applications
AliasNames == {"blog"}
AliasModules == {"pkg.blog", "pkg.alt"}
\* strings given as positional tokens on the command line
Tokens == {"web", "blog", "pkg.custom", ""}
\* application identifiers handed to the configurator directly
Applications == {"blog", "pkg.custom", "sprockets"}
\* interpreter major versions the package declares support for
PyMajors == {2, 3}

\* group_name = 'sprockets.%s.app' % controller
AppGroup(controller) == <<"sprockets", controller, "app">>

\* entry points an installed distribution can register
Entries ==
  [group : {CONTROLLERS}, name : ControllerNames, module_name : ControllerModules]
  \cup
  [group : {AppGroup(c) : c \in ControllerNames}, name : AliasNames,
   module_name : AliasModules]

Indexes == UNION {[1..n -> Entries] : n \in 0..MaxEntries}

\* pkg_resources.iter_entry_points(group=...): the entries of one group, in
\* the order the index yields them
iter_entry_points(idx, group) == SelectSeq(idx, LAMBDA e : e.group = group)

\* ------------------------------------------------------ LOGGING template
\* Objects the module creates when LOGGING is evaluated: the nested dict
\* LOGGING['loggers'] and the list LOGGING['loggers']['sprockets']['handlers']
LoggersRef == "dict@58"
HandlersRef == "list@58"

\* the top-level dict LOGGING: its 'loggers' value is a reference
LOGGING == [loggers |-> LoggersRef]

\* the objects as the source writes them
BaseDicts ==
  [r \in {LoggersRef} |->
     [k \in {"sprockets"} |->
        [handlers |-> HandlersRef, level |-> WARNING, propagate |-> TRUE]]]

BaseLists == [r \in {HandlersRef} |-> <<"console">>]

\* the value a reader of a configuration sees: every reference followed
Deref(config, ds, ls) ==
  LET lg == ds[config.loggers]
  IN  [k \in DOMAIN lg |->
         [handlers |-> ls[lg[k].handlers], level |-> lg[k].level,
          propagate |-> lg[k].propagate]]

\* ------------------------------------------------------ process records
Running == [status |-> "running", code |-> 0, exc |-> ""]
Exited(code) == [status |-> "exited", code |-> code, exc |-> ""]
\* an uncaught exception ends the interpreter with exit status 1
Raised(exc) == [status |-> "raised", code |-> 1, exc |-> exc]
Returned == [status |-> "returned", code |-> 0, exc |-> ""]

NoArgv == [help |-> FALSE, version |-> FALSE, list |-> FALSE, syslog |-> FALSE,
           verbose |-> 0, positionals |-> <<>>]
NoArgs == [list |-> FALSE, syslog |-> FALSE, verbose |-> None,
           controller |-> "", application |-> ""]
NoRet == [fn |-> "", controller |-> "", application |-> "", value |-> ""]
\* how controller main ended: the exception and where it was raised
NoOutcome == [exc |-> "", origin |-> ""]

\* ---------------------------------------------------------- plugin registry
EmptyDict == [k \in {} |-> ""]

\* d[k] = v on a Python dict: a new key is added, an old one overwritten
DictSet(d, k, v) == [x \in DOMAIN d \cup {k} |-> IF x = k THEN v ELSE d[x]]

\* the loop of _get_controllers: importlib.import_module raises ImportError
\* for a module that cannot be imported, and nothing catches it
RECURSIVE load_controllers(_, _)
load_controllers(pkgs, acc) ==
  IF pkgs = <<>> THEN [exc |-> "", value |-> acc]
  ELSE IF Head(pkgs).module_name \notin Importable
       THEN [exc |-> "ImportError", value |-> acc]
       ELSE load_controllers(Tail(pkgs),
                             DictSet(acc, Head(pkgs).name, Head(pkgs).module_name))

_get_controllers(idx) == load_controllers(iter_entry_points(idx, CONTROLLERS), EmptyDict)

\* variant: the applications of every controller
_get_applications_any(idx, controller) ==
  SelectSeq(idx, LAMBDA e : e.group # CONTROLLERS)

_get_applications(idx, controller) == iter_entry_points(idx, AppGroup(controller))

\* the loop of _get_application_module: the first entry whose name equals the
\* application returns its module_name; the application itself is returned
\* when the loop ends
RECURSIVE first_match(_, _)
first_match(pkgs, application) ==
  IF pkgs = <<>> THEN application
  ELSE IF Head(pkgs).name = application THEN Head(pkgs).module_name
       ELSE first_match(Tail(pkgs), application)

_get_application_module(idx, controller, application) ==
  first_match(_get_applications(idx, controller), application)

\* ------------------------------------------------------ argument grammar
\* command lines of the shape  [-h] [--version] [-l] [-s] [-v ...] [controller [application]]
Positionals ==
  {<<>>} \cup {<<c>> : c \in Tokens} \cup {<<c, a>> : c \in Tokens, a \in Tokens}

Argvs ==
  {av \in [help : BOOLEAN, version : BOOLEAN, list : BOOLEAN, syslog : BOOLEAN,
           verbose : 0..MaxVerbose, positionals : Positionals] :
     ~(av.help /\ av.version)}

\* action='count' without a default: None when -v is not given
count(n) == IF n = 0 THEN None ELSE Some(n)

\* whether the grammar of _add_cli_args has a value for 'application': the
\* argument is added without nargs, so argparse requires one token for it,
\* after the token the controller sub-parser takes
application_given(av) == Len(av.positionals) >= 2

\* self._arg_parser.parse_args() under the grammar of _add_cli_args.
\* -h and --version print and exit 0 when they are met; an unknown
\* controller name or a missing positional is an argparse error: usage and
\* message on standard error, exit status 2.
parse_args(av, ctrls, pyv) ==
  IF av.help
  THEN [exit |-> Some(0), out |-> <<<<"help">>>>, err |-> {}, args |-> NoArgs]
  ELSE IF av.version
  THEN [exit |-> Some(0),
        out |-> IF pyv = 2 THEN <<>> ELSE <<<<"sprockets v", "0.1.1">>>>,
        err |-> IF pyv = 2 THEN {"version"} ELSE {}, args |-> NoArgs]
  ELSE IF Len(av.positionals) = 0
  THEN [exit |-> Some(2), out |-> <<>>, err |-> {"argparse error"}, args |-> NoArgs]
  ELSE IF av.positionals[1] \notin DOMAIN ctrls
  THEN [exit |-> Some(2), out |-> <<>>, err |-> {"argparse error"}, args |-> NoArgs]
  ELSE IF ~application_given(av)
  THEN [exit |-> Some(2), out |-> <<>>, err |-> {"argparse error"}, args |-> NoArgs]
  ELSE [exit |-> None, out |-> <<>>, err |-> {},
        args |-> [list |-> av.list, syslog |-> av.syslog,
                  verbose |-> count(av.verbose),
                  controller |-> av.positionals[1],
                  application |-> av.positionals[2]]]

\* ------------------------------------------------- logging configurator
\* lines 174-177: the level of the 'sprockets' logger of config
set_level(lg, verbosity) ==
  IF verbosity = Some(1) THEN [lg EXCEPT !["sprockets"].level = INFO]
  ELSE IF verbosity = Some(2) THEN [lg EXCEPT !["sprockets"].level = DEBUG]
  ELSE lg

\* lines 180-181: list.append on the handlers list of the 'sprockets' logger
add_syslog(lg, ls, syslog) ==
  IF syslog THEN [ls EXCEPT ![lg["sprockets"].handlers] = Append(@, "syslog")]
  ELSE ls

\* variant: the application's logger is copied from the entry as written
copy_logger_base(lg, application) ==
  DictSet(lg, application, BaseDicts[LoggersRef]["sprockets"])

\* line 184: dict(...) of the 'sprockets' entry is a new dict with the same
\* values, the reference to the handlers list among them
copy_logger(lg, application) == DictSet(lg, application, lg["sprockets"])

\* _configure_logging: config = dict(LOGGING) copies the top-level dict only,
\* so config['loggers'] is the object LOGGING['loggers'] and every write goes
\* to it.  The result is the objects after the call and the configuration
\* dictConfig reads.
_configure_logging(ds, ls, application, verbosity, syslog) ==
  LET config == LOGGING
      lg1 == set_level(ds[config.loggers], verbosity)
      ls1 == add_syslog(lg1, ls, syslog)
      lg2 == copy_logger(lg1, application)
      ds1 == [ds EXCEPT ![config.loggers] = lg2]
  IN  [dicts |-> ds1, lists |-> ls1, installed |-> Deref(config, ds1, ls1)]

\* --------------------------------------------------------------- listing
\* str.upper on the controller names
upper(s) == CASE s = "web" -> "WEB" [] s = "worker" -> "WORKER" [] OTHER -> s

RECURSIVE app_rows(_)
app_rows(pkgs) ==
  IF pkgs = <<>> THEN <<>>
  ELSE <<<<Head(pkgs).name, "(", Head(pkgs).module_name, ")">>>> \o app_rows(Tail(pkgs))

\* _print_installed_apps: string.ljust exists in Python 2 only; under
\* Python 3 line 256 raises AttributeError after the first two lines are
\* printed
_print_installed_apps(idx, controller, pyv) ==
  LET head == << <<"Installed Sprockets", upper(controller), "Apps">>,
                 <<"Name", "Module">> >>
  IN  IF pyv = 2
      THEN [exc |-> "",
            out |-> head \o << <<"---">> >> \o app_rows(_get_applications(idx, controller))
                    \o << <<"">> >>]
      ELSE [exc |-> "AttributeError", out |-> head]

VARIABLES
  index,        \* the installed plugin index
  py,           \* sys.version_info.major of the running interpreter
  argv,         \* the command line of the process
  pc,           \* position of the process in CLI() / CLI.run
  controllers,  \* self._controllers
  args,         \* self._args
  app_module,   \* local app_module of CLI.run
  dicts,        \* Python dict objects held by reference
  lists,        \* Python list objects held by reference
  installed,    \* the configuration last handed to dictConfig
  calls,        \* calls made to _configure_logging and to controller main
  visited,      \* dispatcher states visited, in order
  proc,         \* how the process ended: status, exit code, exception
  stderr,       \* kinds of message written to standard error
  stdout,       \* what was printed on standard output
  outcome,      \* how the call of controller main ended
  ret           \* last value returned to a direct caller of the registry

vars == <<index, py, argv, pc, controllers, args, app_module, dicts, lists,
          installed, calls, visited, proc, stderr, stdout, outcome, ret>>

\* ------------------------------------------------------------ the process
\* a process before main() runs: the module is imported, LOGGING is as written
Fresh ==
  /\ py \in PyMajors
  /\ argv = NoArgv
  /\ controllers = EmptyDict
  /\ args = NoArgs
  /\ app_module = ""
  /\ dicts = BaseDicts
  /\ lists = BaseLists
  /\ installed = None
  /\ calls = <<>>
  /\ visited = <<>>
  /\ proc = Running
  /\ stderr = {}
  /\ stdout = <<>>
  /\ outcome = NoOutcome
  /\ ret = NoRet

Init ==
  /\ index \in Indexes
  /\ pc = "new"
  /\ Fresh

\* cli = CLI(): __init__ discovers the controllers, builds the grammar and
\* parses the command line.  An ImportError out of _get_controllers leaves
\* __init__ before the grammar is built.  The flags a controller adds to its
\* own sub-parser through add_cli_arguments are not part of the model.
CLI_init ==
  /\ pc = "new"
  /\ proc.status = "running"
  /\ \E av \in Argvs :
       LET got == _get_controllers(index)
           p == parse_args(av, got.value, py)
       IN  /\ argv' = av
           /\ IF got.exc # ""
              THEN /\ proc' = Raised(got.exc)
                   /\ stderr' = stderr \cup {"traceback"}
                   /\ UNCHANGED <<pc, controllers, args, visited, stdout>>
              ELSE /\ controllers' = got.value
                   /\ IF p.exit # None
                      THEN /\ proc' = Exited(CHOOSE c \in p.exit : TRUE)
                           /\ stderr' = stderr \cup p.err
                           /\ stdout' = stdout \o p.out
                           /\ UNCHANGED <<pc, args, visited>>
                      ELSE /\ args' = p.args
                           /\ pc' = "START"
                           /\ visited' = <<"START">>
                           /\ UNCHANGED <<proc, stderr, stdout>>
  /\ UNCHANGED <<index, py, app_module, dicts, lists, installed, calls, outcome, ret>>

\* lines 91-93: the list flag prints the applications and exits 0
run_list ==
  /\ pc = "START"
  /\ proc.status = "running"
  /\ args.list
  /\ LET r == _print_installed_apps(index, args.controller, py)
     IN  /\ stdout' = stdout \o r.out
         /\ IF r.exc = ""
            THEN /\ proc' = Exited(0)
                 /\ UNCHANGED stderr
            ELSE /\ proc' = Raised(r.exc)
                 /\ stderr' = stderr \cup {"traceback"}
  /\ pc' = "LIST"
  /\ visited' = Append(visited, "LIST")
  /\ UNCHANGED <<index, py, argv, controllers, args, app_module, dicts, lists,
                 installed, calls, outcome, ret>>

\* line 91, list flag unset: on to the check of the application
run_validate ==
  /\ pc = "START"
  /\ proc.status = "running"
  /\ ~args.list
  /\ pc' = "VALIDATE"
  /\ visited' = Append(visited, "VALIDATE")
  /\ UNCHANGED <<index, py, argv, controllers, args, app_module, dicts, lists,
                 installed, calls, proc, stderr, stdout, outcome, ret>>

\* variant: a test for None in place of the truth test
application_is_none(application) == FALSE

\* line 96: not self._args.application
application_missing(application) == application = ""

\* lines 96-99: error text, help text, exit -1
run_missing ==
  /\ pc = "VALIDATE"
  /\ proc.status = "running"
  /\ application_missing(args.application)
  /\ stderr' = stderr \cup {"error: application not specified"}
  /\ stdout' = Append(stdout, <<"help">>)
  /\ proc' = Exited(-1)
  /\ UNCHANGED <<index, py, argv, pc, controllers, args, app_module, dicts, lists,
                 installed, calls, visited, outcome, ret>>

\* the record of one call: the application passed, and the verbosity and
\* syslog flags passed (to main, as part of self._args)
Call(fn, application, verbosity, syslog) ==
  [fn |-> fn, application |-> application, verbosity |-> verbosity,
   syslog |-> syslog]

\* lines 101-108: resolve the application, then configure logging
run_configure ==
  /\ pc = "VALIDATE"
  /\ proc.status = "running"
  /\ ~application_missing(args.application)
  /\ LET module == _get_application_module(index, args.controller, args.application)
         cfg == _configure_logging(dicts, lists, module, args.verbose, args.syslog)
     IN  /\ app_module' = module
         /\ dicts' = cfg.dicts
         /\ lists' = cfg.lists
         /\ installed' = Some(cfg.installed)
         /\ calls' = Append(calls, Call("_configure_logging", module,
                                        args.verbose, args.syslog))
  /\ pc' = "CONFIGURE_LOGGING"
  /\ visited' = Append(visited, "CONFIGURE_LOGGING")
  /\ UNCHANGED <<index, py, argv, controllers, args, proc, stderr, stdout,
                 outcome, ret>>

\* variant: the application as typed is passed on
main_application_raw(module, application) == application

\* lines 112-113: the first argument of main
main_application(module, application) == module

\* lines 112-113: the call of the selected controller's main
run_invoke ==
  /\ pc = "CONFIGURE_LOGGING"
  /\ proc.status = "running"
  /\ calls' = Append(calls, Call("main",
                                 main_application(app_module, args.application),
                                 args.verbose, args.syslog))
  /\ pc' = "INVOKE"
  /\ visited' = Append(visited, "INVOKE")
  /\ UNCHANGED <<index, py, argv, controllers, args, app_module, dicts, lists,
                 installed, proc, stderr, stdout, outcome, ret>>

\* main returns: run returns and the process ends
run_done ==
  /\ pc = "INVOKE"
  /\ proc.status = "running"
  /\ pc' = "DONE"
  /\ visited' = Append(visited, "DONE")
  /\ proc' = Returned
  /\ UNCHANGED <<index, py, argv, controllers, args, app_module, dicts, lists,
                 installed, calls, stderr, stdout, outcome, ret>>

\* ways the call of main can raise: TypeError when the arguments do not fit
\* its signature, and any exception, TypeError among them, from its body
Failures ==
  {[exc |-> "TypeError", origin |-> "call"],
   [exc |-> "TypeError", origin |-> "body"],
   [exc |-> "RuntimeError", origin |-> "body"]}

\* line 114: except TypeError
caught(exc) == exc = "TypeError"

\* lines 114-119: a TypeError out of main is reported and exits -1; any
\* other exception leaves run
run_raise ==
  /\ pc = "INVOKE"
  /\ proc.status = "running"
  /\ \E f \in Failures :
       /\ outcome' = f
       /\ IF caught(f.exc)
          THEN /\ stderr' = stderr \cup {"error: could not start"}
               /\ proc' = Exited(-1)
               /\ pc' = "FAILED"
               /\ visited' = Append(visited, "FAILED")
          ELSE /\ stderr' = stderr \cup {"traceback"}
               /\ proc' = Raised(f.exc)
               /\ UNCHANGED <<pc, visited>>
  /\ UNCHANGED <<index, py, argv, controllers, args, app_module, dicts, lists,
                 installed, calls, stdout, ret>>

Next ==
  \/ CLI_init
  \/ run_list
  \/ run_validate
  \/ run_missing
  \/ run_configure
  \/ run_invoke
  \/ run_done
  \/ run_raise

Spec == Init /\ [][Next]_vars

\* ------------------------------------------- the configurator, called directly
Verbosities == {None} \cup {Some(n) : n \in 0..MaxVerbose}

InitCfg ==
  /\ index = <<>>
  /\ pc = "api"
  /\ Fresh

\* CLI._configure_logging(application, verbosity, syslog), a static method,
\* called by code that imported the module
call_configure_logging ==
  /\ pc = "api"
  /\ Len(calls) < MaxCalls
  /\ \E application \in Applications, verbosity \in Verbosities, syslog \in BOOLEAN :
       LET cfg == _configure_logging(dicts, lists, application, verbosity, syslog)
       IN  /\ dicts' = cfg.dicts
           /\ lists' = cfg.lists
           /\ installed' = Some(cfg.installed)
           /\ calls' = Append(calls, Call("_configure_logging", application,
                                          verbosity, syslog))
  /\ UNCHANGED <<index, py, argv, pc, controllers, args, app_module, visited,
                 proc, stderr, stdout, outcome, ret>>

NextCfg == call_configure_logging

SpecCfg == InitCfg /\ [][NextCfg]_vars

\* ------------------------------------------------ the registry, called directly
InitReg ==
  /\ index \in Indexes
  /\ pc = "api"
  /\ Fresh

\* _get_application_module(controller, application) for any two strings
call_get_application_module ==
  /\ pc = "api"
  /\ \E controller \in ControllerNames \cup {"batch"}, application \in Tokens :
       ret' = [fn |-> "_get_application_module", controller |-> controller,
               application |-> application,
               value |-> _get_application_module(index, controller, application)]
  /\ UNCHANGED <<index, py, argv, pc, controllers, args, app_module, dicts, lists,
                 installed, calls, visited, proc, stderr, stdout, outcome>>

NextReg == call_get_application_module

SpecReg == InitReg /\ [][NextReg]_vars

\* ================================================================ properties
Terminated == proc.status # "running"

\* the configuration dictConfig last received
Active == CHOOSE c \in installed : TRUE

\* positions in calls of the calls of fn
CallsOf(fn) == {i \in 1..Len(calls) : calls[i].fn = fn}

\* positions in the index of the entries registered for controller c under name a
Matches(c, a) ==
  {i \in 1..Len(index) :
     /\ index[i].group = <<"sprockets", c, "app">>
     /\ index[i].name = a}

\* a is resolved to r for controller c: r is the module of the earliest
\* matching entry, or a itself when there is none
Resolves(c, a, r) ==
  IF Matches(c, a) = {} THEN r = a
  ELSE \E i \in Matches(c, a) :
         /\ \A j \in Matches(c, a) : i <= j
         /\ r = index[i].module_name

\* the severity the verbosity asks for, on the template default WARNING
LevelFor(verbosity) ==
  IF verbosity = Some(1) THEN INFO
  ELSE IF verbosity = Some(2) THEN DEBUG
  ELSE WARNING

\* the command line sets no list flag and gives no application, or an empty one
NoApplication ==
  /\ ~argv.list
  /\ \/ Len(argv.positionals) < 2
     \/ argv.positionals[2] = ""

UsageError ==
  \/ "argparse error" \in stderr
  \/ "error: application not specified" \in stderr

\* C1: the base logging template is never mutated: after any sequence of
\* calls of the configurator the template reads as it was written (same
\* 'sprockets' level, same handler list, same logger keys).
C1_TemplateNeverMutated ==
  Deref(LOGGING, dicts, lists) = Deref(LOGGING, BaseDicts, BaseLists)

\* C2: list-mode short-circuits: in a run with the list flag set neither
\* the controller's main nor the configurator is called, and the run ends
\* in exit code 0.
C2_ListShortCircuits ==
  (visited # <<>> /\ args.list) =>
     /\ CallsOf("main") = {}
     /\ CallsOf("_configure_logging") = {}
     /\ Terminated => proc = Exited(0)

\* C3: _get_application_module(c, a) returns the module identifier of the
\* first entry of the group 'sprockets.<c>.app' whose name equals a, and a
\* unchanged when that group has no such entry; entries of other groups
\* have no effect.
C3_AliasOrLiteral ==
  ret.fn = "_get_application_module" =>
     Resolves(ret.controller, ret.application, ret.value)

\* C3 witness: two entries of the controller's group carry the name asked
\* for, with different modules, and the call has returned
C3_Witness ==
  /\ ret.fn = "_get_application_module"
  /\ \E i, j \in Matches(ret.controller, ret.application) :
       index[i].module_name # index[j].module_name

\* C4 as stated: with the list flag unset and the application absent or
\* empty, the process ends with a non-zero exit code after a usage error,
\* and neither main nor the configurator has been called.
C4_Original ==
  NoApplication =>
     /\ calls = <<>>
     /\ Terminated => (proc.code # 0 /\ UsageError)

\* C4 as amended: with neither -h nor --version given, the list flag unset
\* and the application absent or empty, the process ends with a non-zero
\* exit code and neither main nor the configurator has been called; it
\* ends by exit after a usage error, or, when controller discovery raised,
\* by the uncaught ImportError.
C4_MissingApplication ==
  (NoApplication /\ ~argv.help /\ ~argv.version) =>
     /\ calls = <<>>
     /\ Terminated =>
          /\ proc.code # 0
          /\ \/ proc.status = "exited" /\ UsageError
             \/ proc.status = "raised" /\ proc.exc = "ImportError"

\* C4 witness: run has met an empty application and exited -1
C4_Witness ==
  /\ ~argv.list
  /\ Len(argv.positionals) = 2
  /\ argv.positionals[2] = ""
  /\ visited = <<"START", "VALIDATE">>
  /\ proc = Exited(-1)
  /\ "error: application not specified" \in stderr

\* C5: a failure of main ends in FAILED (diagnostic, non-zero exit) only
\* when it is a signature mismatch of the call; every other failure raised
\* by the controller during its run leaves CLI.run unmodified.
C5_OnlyMismatchFails ==
  outcome.exc # "" =>
     IF outcome.origin = "call"
     THEN /\ pc = "FAILED"
          /\ proc = Exited(-1)
          /\ "error: could not start" \in stderr
     ELSE /\ pc # "FAILED"
          /\ proc = Raised(outcome.exc)

\* C6: a controller entry whose module cannot be imported is left out and
\* the enumeration goes on: the listing does not fail and every entry whose
\* module imports is in the mapping.
C6_LoadFailureAbsorbed ==
  (pc # "new" \/ Terminated) =>
     /\ proc.exc # "ImportError"
     /\ \A i \in 1..Len(index) :
          (index[i].group = CONTROLLERS /\ index[i].module_name \in Importable)
             => index[i].name \in DOMAIN controllers

\* C7: the configuration the configurator installs has 'sprockets' severity
\* WARNING for verbosity 0, INFO for 1, DEBUG for 2 and WARNING for every
\* other verbosity, unset and 3 or more included.
C7_VerbosityMapping ==
  calls # <<>> =>
     Active["sprockets"].level = LevelFor(calls[Len(calls)].verbosity)

\* C8: a command line with the list flag, a registered controller name and
\* no application token is accepted, lists that controller's applications
\* and exits 0.
C8_ListNeedsNoApplication ==
  ( /\ argv.list
    /\ ~argv.help
    /\ ~argv.version
    /\ Len(argv.positionals) = 1
    /\ argv.positionals[1] \in DOMAIN controllers
    /\ Terminated )
  => /\ proc = Exited(0)
     /\ visited = <<"START", "LIST">>

\* C9: in a run that calls main, main is called at most once, the
\* configurator was called exactly once before it, both received the
\* resolved application, the configurator received the parsed verbosity
\* and syslog flags, and the states were visited in the order START,
\* VALIDATE, CONFIGURE_LOGGING, INVOKE.
C9_DispatchOrdering ==
  /\ Cardinality(CallsOf("main")) <= 1
  /\ \A m \in CallsOf("main") :
       /\ Cardinality(CallsOf("_configure_logging")) = 1
       /\ \A c \in CallsOf("_configure_logging") :
            /\ c < m
            /\ Resolves(args.controller, args.application, calls[c].application)
            /\ calls[m].application = calls[c].application
            /\ calls[c].verbosity = count(argv.verbose)
            /\ calls[c].syslog = argv.syslog
       /\ Len(visited) >= 4
       /\ SubSeq(visited, 1, 4) = <<"START", "VALIDATE", "CONFIGURE_LOGGING", "INVOKE">>

\* C9 witness: main has been called with the module an alias resolved to
C9_Witness ==
  /\ pc = "INVOKE"
  /\ args.application = "blog"
  /\ \E m \in CallsOf("main") : calls[m].application = "pkg.blog"

\* C10: after a single call on the pristine template the installed
\* configuration has a logger keyed by the application whose severity,
\* handlers and propagation equal those of the 'sprockets' logger; the
\* handlers are the template's with 'syslog' appended once when syslog is
\* enabled, and without it otherwise.
C10_ApplicationLoggerClone ==
  (pc = "api" /\ Len(calls) = 1) =>
     LET c == calls[1]
     IN  /\ c.application \in DOMAIN Active
         /\ Active[c.application] = Active["sprockets"]
         /\ Active["sprockets"].handlers =
              <<"console">> \o (IF c.syslog THEN <<"syslog">> ELSE <<>>)
         /\ Active["sprockets"].level = LevelFor(c.verbosity)
         /\ Active["sprockets"].propagate

\* C10 witness: one call with syslog enabled and verbosity 2 has been made
C10_Witness ==
  /\ pc = "api"
  /\ Len(calls) = 1
  /\ calls[1].syslog
  /\ calls[1].verbosity = Some(2)
  /\ calls[1].application = "blog"
  /\ Active["blog"].handlers = <<"console", "syslog">>

====
